---- MODULE Spec2Model ----
(***************************************************************************)
(* Shared Feetech bus of XLeRobot: FeetechBusManager (reference-counted   *)
(* owner of one FeetechMotorsBus) and FeetechBusView (per-component proxy *)
(* that renames motors), from                                             *)
(*   src/lerobot/robots/xlerobot/shared_bus_mode/shared_bus.py            *)
(* Python dicts are functions, dict iteration order is a sequence of keys, *)
(* a raised exception is an outcome of the operation.  The variable last  *)
(* is a log of the most recent call: which operation ran, with which      *)
(* arguments, which calls it made on the bus handle, how it ended and     *)
(* what it returned.                                                      *)
(***************************************************************************)
EXTENDS Naturals, Integers, Sequences, FiniteSets, TLC

(* ------------------------------ bounds -------------------------------- *)
\* Cap on the reference count reached by acquire.
MaxRef == 3
\* Cap on the reference count where the Views' bus operations are explored.
MaxOpsRef == 1

(* ------------------------- input universes ---------------------------- *)
CompNames == {"left", "right"}
LocalNames == {"m", "l_m"}
Prefixes == {"", "l_"}
Offsets == {0, 1}
Calibs == {"calA"}
Values == {0, 1}

\* The motor table of a sub-device: Motor(id, model, norm_mode) per local name.
SubDeviceMotor(n) ==
    IF n = "m" THEN [id |-> 1, model |-> "sts3215", norm_mode |-> "range_m100_100"]
               ELSE [id |-> 2, model |-> "sts3250", norm_mode |-> "degrees"]

\* Every bus-global name prefix || local name that the inputs can produce.
BusNames == {p \o n : p \in Prefixes, n \in LocalNames}

(* ------------------------------ helpers ------------------------------- *)
EmptyDict == [k \in {} |-> 0]

\* d[k] = v on a Python dict.
Put(d, k, v) == [x \in DOMAIN d \cup {k} |-> IF x = k THEN v ELSE d[x]]

Range(s) == {s[i] : i \in DOMAIN s}

\* Key sequences of a non-empty dict with at most two keys drawn from S.
KeySeqs(S) ==
    {<<a>> : a \in S} \cup {s \in {<<a, b>> : a \in S, b \in S} : s[1] # s[2]}

VARIABLES
    motor_defs,    \* FeetechBusManager._motor_defs: bus name -> Motor
    calibration,   \* FeetechBusManager._calibration: bus name -> calibration
    views,         \* FeetechBusManager.views: component name -> View (index)
    bus,           \* FeetechBusManager.bus: the handle, or NoBus for None
    refcount,      \* FeetechBusManager._refcount
    allViews,      \* every FeetechBusView object register_component returned
    last,          \* log of the most recent call
    threads        \* per thread: where it stands inside acquire, its locals

vars == <<motor_defs, calibration, views, bus, refcount, allViews, last, threads>>

Threads == {1, 2}

\* A thread that has not called acquire.
IdleThread ==
    [pc |-> "idle", handshake |-> FALSE, loaded |-> 0, created |-> FALSE,
     connect_called |-> FALSE, alone |-> TRUE]

\* manager.bus is None
NoBus == [exists |-> FALSE, is_connected |-> FALSE, motors |-> EmptyDict,
          calibration |-> EmptyDict, registers |-> EmptyDict]

NoCall == [op |-> "init", view |-> 0, calls |-> <<>>, outcome |-> "ok",
           arg |-> EmptyDict, hret |-> EmptyDict, ret |-> EmptyDict]

\* FeetechBusManager.__init__
Init ==
    /\ motor_defs = EmptyDict
    /\ calibration = EmptyDict
    /\ views = EmptyDict
    /\ bus = NoBus
    /\ refcount = 0
    /\ allViews = <<>>
    /\ last = NoCall
    /\ threads = [t \in Threads |-> IdleThread]

(* ------------------------- register_component ------------------------- *)
\* Faulty variant of UpdatedMotor: the id offset is not applied.
UpdatedMotorNoOffset(motor, motor_id_offset) ==
    [id |-> motor.id, model |-> motor.model, norm_mode |-> motor.norm_mode]

\* Motor(id=motor.id + motor_id_offset, model=motor.model, norm_mode=...)
UpdatedMotor(motor, motor_id_offset) ==
    [id |-> motor.id + motor_id_offset, model |-> motor.model,
     norm_mode |-> motor.norm_mode]

\* bus_name = f"{prefix}{motor_name}"
BusName(prefix, motor_name) == prefix \o motor_name

\* Faulty variant of RegisterStep: a motor whose id is already in the Global
\* Namespace is rejected like a colliding name.
RegisterStepCheckingIds(st, motor_name, motor, prefix, motor_id_offset, initial_calibration) ==
    LET bus_name == BusName(prefix, motor_name)
        updated_motor == UpdatedMotor(motor, motor_id_offset)
    IN  IF st.raised THEN st
        ELSE IF \/ bus_name \in DOMAIN st.motor_defs
                \/ \E g \in DOMAIN st.motor_defs : st.motor_defs[g].id = updated_motor.id
        THEN [st EXCEPT !.raised = TRUE]
        ELSE [st EXCEPT
                !.motor_defs = Put(@, bus_name, updated_motor),
                !.local_copy = Put(@, motor_name, updated_motor),
                !.names = Append(@, motor_name),
                !.mapping = Put(@, motor_name, bus_name),
                !.calibration =
                    IF motor_name \in DOMAIN initial_calibration
                    THEN Put(@, bus_name, initial_calibration[motor_name])
                    ELSE @]

\* Faulty variant of RegisterStep: a bus name already present is overwritten.
RegisterStepOverwriting(st, motor_name, motor, prefix, motor_id_offset, initial_calibration) ==
    LET bus_name == BusName(prefix, motor_name)
        updated_motor == UpdatedMotor(motor, motor_id_offset)
    IN  [st EXCEPT
            !.motor_defs = Put(@, bus_name, updated_motor),
            !.local_copy = Put(@, motor_name, updated_motor),
            !.names = Append(@, motor_name),
            !.mapping = Put(@, motor_name, bus_name),
            !.calibration =
                IF motor_name \in DOMAIN initial_calibration
                THEN Put(@, bus_name, initial_calibration[motor_name])
                ELSE @]

\* One iteration of the for loop over local_motors.items(): st is the loop
\* state (the manager's two dicts, the view under construction, raised).
RegisterStep(st, motor_name, motor, prefix, motor_id_offset, initial_calibration) ==
    LET bus_name == BusName(prefix, motor_name)
        updated_motor == UpdatedMotor(motor, motor_id_offset)
    IN  IF st.raised THEN st
        ELSE IF bus_name \in DOMAIN st.motor_defs
        THEN [st EXCEPT !.raised = TRUE]
        ELSE [st EXCEPT
                !.motor_defs = Put(@, bus_name, updated_motor),
                !.local_copy = Put(@, motor_name, updated_motor),
                !.names = Append(@, motor_name),
                !.mapping = Put(@, motor_name, bus_name),
                !.calibration =
                    IF motor_name \in DOMAIN initial_calibration
                    THEN Put(@, bus_name, initial_calibration[motor_name])
                    ELSE @]

RECURSIVE RegisterLoop(_, _, _, _, _, _)
RegisterLoop(st, names, i, prefix, motor_id_offset, initial_calibration) ==
    IF i > Len(names) THEN st
    ELSE RegisterLoop(
            RegisterStep(st, names[i], SubDeviceMotor(names[i]), prefix,
                         motor_id_offset, initial_calibration),
            names, i + 1, prefix, motor_id_offset, initial_calibration)

\* FeetechBusView(manager, local_copy, mapping); __post_init__: _connected = False
NewView(st) ==
    [names |-> st.names, local_motors |-> st.local_copy,
     local_to_bus |-> st.mapping, connected |-> FALSE]

RegisterComponent(component_name, names, prefix, motor_id_offset, initial_calibration) ==
    LET st0 == [motor_defs |-> motor_defs, calibration |-> calibration,
                local_copy |-> EmptyDict, mapping |-> EmptyDict,
                names |-> <<>>, raised |-> FALSE]
        st == RegisterLoop(st0, names, 1, prefix, motor_id_offset, initial_calibration)
        arg == [names |-> names, prefix |-> prefix,
                motor_id_offset |-> motor_id_offset]
    IN  /\ motor_defs' = st.motor_defs
        /\ calibration' = st.calibration
        /\ IF st.raised
           THEN /\ UNCHANGED <<views, allViews>>
                /\ last' = [NoCall EXCEPT !.op = "register_component",
                                          !.outcome = "ValueError", !.arg = arg]
           ELSE /\ allViews' = Append(allViews, NewView(st))
                /\ views' = Put(views, component_name, Len(allViews) + 1)
                /\ last' = [NoCall EXCEPT !.op = "register_component",
                                          !.view = Len(allViews) + 1, !.arg = arg]
        /\ UNCHANGED <<bus, refcount, threads>>

\* initial_calibration: None, or a dict over some local names.
InitialCalibrations ==
    {EmptyDict} \cup {[n \in {"m"} |-> c] : c \in Calibs}

\* The arguments of one register_component call.
AllRequests ==
    [component_name : CompNames, names : KeySeqs(LocalNames), prefix : Prefixes,
     motor_id_offset : Offsets, initial_calibration : InitialCalibrations]

\* The requests of the assembly the lifecycle is explored on: component
\* "left" under prefix "l_" (offset 0, motor "m" calibrated) and component
\* "right" under the empty prefix (offset 1, no calibration).
ScenarioRequests ==
    {r \in AllRequests :
        /\ r.names \in {<<"m">>, <<"l_m">>, <<"m", "l_m">>}
        /\ r.component_name = (IF r.prefix = "" THEN "right" ELSE "left")
        /\ r.motor_id_offset = (IF r.prefix = "" THEN 1 ELSE 0)
        /\ r.initial_calibration = (IF r.prefix = "" THEN EmptyDict
                                    ELSE [n \in {"m"} |-> "calA"])}

\* The assembly the Views' bus operations are explored on: "left" with both
\* motors under "l_", "right" with motor "m" or both motors under "".
OpsRequests ==
    {r \in ScenarioRequests :
        \/ r.prefix = "l_" /\ r.names = <<"m", "l_m">>
        \/ r.prefix = "" /\ r.names \in {<<"m">>, <<"m", "l_m">>}}

Register(Requests) ==
    \E r \in Requests :
        RegisterComponent(r.component_name, r.names, r.prefix,
                          r.motor_id_offset, r.initial_calibration)

(* ------------------------------ the handle ---------------------------- *)
\* FeetechMotorsBus(port, motors=_motor_defs, calibration=_calibration or None):
\* the handle keeps the motor table and calibration it was constructed from;
\* registers is what has been written to its motors (kept by the echoing
\* double only).
NewBus ==
    [exists |-> TRUE, is_connected |-> FALSE, motors |-> motor_defs,
     calibration |-> calibration, registers |-> EmptyDict]

\* Truth value of manager.bus in "self.bus and ...": the handle exists.
BusTruthy(b) == b.exists

ConnectCall(handshake) == [fn |-> "connect", kind |-> "flag", motors |-> <<handshake>>]
DisconnectCall(disable_torque) ==
    [fn |-> "disconnect", kind |-> "flag", motors |-> <<disable_torque>>]
NamesCall(fn, subset) == [fn |-> fn, kind |-> "names", motors |-> subset]

(* --------------------------- acquire / release ------------------------ *)
\* Faulty variant of EnsureBus: the handle is constructed on every call.
EnsureBusAlways(b) == NewBus

\* _ensure_bus: if self.bus is None: self.bus = FeetechMotorsBus(...)
EnsureBus(b) == IF ~b.exists THEN NewBus ELSE b

\* acquire(handshake): the handle's connect either returns, with the port
\* open (connect_ok), or raises, with no connection made.
AcquireResult(b, rc, handshake, connect_ok) ==
    LET b1 == EnsureBus(b)
        rc1 == rc + 1
        connects == rc1 = 1 /\ BusTruthy(b1) /\ ~b1.is_connected
    IN  [bus |-> IF connects
                 THEN [b1 EXCEPT !.is_connected = connect_ok]
                 ELSE b1,
         refcount |-> rc1,
         calls |-> IF connects THEN <<ConnectCall(handshake)>> ELSE <<>>,
         outcome |-> IF connects /\ ~connect_ok THEN "ConnectionError" ELSE "ok"]

\* Faulty variant of ReleaseResult: the count is decremented also at zero.
ReleaseResultUnguarded(b, rc, disable_torque, disconnect_ok) ==
    LET rc1 == rc - 1
        disconnects == rc1 = 0 /\ BusTruthy(b) /\ b.is_connected
    IN  [bus |-> IF disconnects
                 THEN [b EXCEPT !.is_connected = ~disconnect_ok]
                 ELSE b,
         refcount |-> rc1,
         calls |-> IF disconnects THEN <<DisconnectCall(disable_torque)>> ELSE <<>>,
         outcome |-> IF disconnects /\ ~disconnect_ok THEN "ConnectionError" ELSE "ok"]

\* release(disable_torque): the handle's disconnect either returns, with the
\* port closed (disconnect_ok), or raises, with the connection still up.
ReleaseResult(b, rc, disable_torque, disconnect_ok) ==
    IF rc = 0
    THEN [bus |-> b, refcount |-> rc, calls |-> <<>>, outcome |-> "ok"]
    ELSE LET rc1 == rc - 1
             disconnects == rc1 = 0 /\ BusTruthy(b) /\ b.is_connected
         IN  [bus |-> IF disconnects
                      THEN [b EXCEPT !.is_connected = ~disconnect_ok]
                      ELSE b,
              refcount |-> rc1,
              calls |-> IF disconnects THEN <<DisconnectCall(disable_torque)>> ELSE <<>>,
              outcome |-> IF disconnects /\ ~disconnect_ok THEN "ConnectionError" ELSE "ok"]

\* FeetechBusManager.acquire called directly, while the count is below limit.
Acquire(limit) ==
    \E handshake \in BOOLEAN, connect_ok \in BOOLEAN :
        LET r == AcquireResult(bus, refcount, handshake, connect_ok)
        IN  /\ refcount < limit
            /\ bus' = r.bus
            /\ refcount' = r.refcount
            /\ last' = [NoCall EXCEPT !.op = "acquire", !.calls = r.calls,
                                      !.outcome = r.outcome]
            /\ UNCHANGED <<motor_defs, calibration, views, allViews, threads>>

ManagerAcquire == Acquire(MaxRef)

\* FeetechBusManager.release called directly.
ManagerRelease ==
    \E disable_torque \in BOOLEAN, disconnect_ok \in BOOLEAN :
        LET r == ReleaseResult(bus, refcount, disable_torque, disconnect_ok)
        IN  /\ bus' = r.bus
            /\ refcount' = r.refcount
            /\ last' = [NoCall EXCEPT !.op = "release", !.calls = r.calls,
                                      !.outcome = r.outcome]
            /\ UNCHANGED <<motor_defs, calibration, views, allViews, threads>>

(* ----------------------- View: argument universes -------------------- *)
\* A motors argument: None, one local name, a list of local names, or an int.
MotorsArgs ==
    {[kind |-> "none", val |-> <<>>], [kind |-> "list", val |-> <<>>],
     [kind |-> "list", val |-> <<"m", "l_m">>], [kind |-> "int", val |-> <<1>>]}
    \cup {[kind |-> "str", val |-> <<n>>] : n \in LocalNames}

\* Motor ids a caller can pass to write / setup_motor.
MotorIds == {SubDeviceMotor(n).id + o : n \in LocalNames, o \in Offsets}

\* A motor argument of write / setup_motor: None, a local name or an int id.
MotorArgs ==
    {[kind |-> "none", val |-> <<>>]}
    \cup {[kind |-> "str", val |-> <<n>>] : n \in LocalNames}
    \cup {[kind |-> "int", val |-> <<i>>] : i \in MotorIds}

\* A dict keyed by local names (sync_write values, write_calibration).
DictArgs(Vals) == UNION {[S -> Vals] : S \in SUBSET LocalNames \ {{}}}

\* What the handle reads from the motor with bus name g.
Reading(g) == IF g = "m" THEN 10 ELSE IF g = "l_m" THEN 20 ELSE 30

\* A record the handle returns, keyed by any bus names.
HandleRecords == {[g \in D |-> Reading(g)] : D \in SUBSET BusNames}

\* A call on the handle raises, or returns one of the records.
HandleReturns ==
    {[raised |-> TRUE, value |-> EmptyDict]}
    \cup {[raised |-> FALSE, value |-> r] : r \in HandleRecords}

\* maxes as the handle returns them beside mins from record_ranges_of_motion.
Maxes(mins) == [g \in DOMAIN mins |-> mins[g] + 1]

(* ------------------------- View: translation -------------------------- *)
Views == 1 .. Len(allViews)

\* _translate_motors(None): [local_to_bus[name] for name in local_motors]
TranslateAll(view) == [i \in 1 .. Len(view.names) |-> view.local_to_bus[view.names[i]]]

\* _translate_motors(motors); raised is the exception, "" when it returns.
TranslateMotors(view, motors) ==
    IF motors.kind = "none"
    THEN [raised |-> "", subset |-> TranslateAll(view)]
    ELSE IF motors.kind = "int"
    THEN [raised |-> "TypeError", subset |-> <<>>]
    ELSE IF \E i \in DOMAIN motors.val : motors.val[i] \notin DOMAIN view.local_to_bus
    THEN [raised |-> "KeyError", subset |-> <<>>]
    ELSE [raised |-> "",
          subset |-> [i \in DOMAIN motors.val |-> view.local_to_bus[motors.val[i]]]]

\* _translate_motor(motor): None and an int are returned as they are.
TranslateMotor(view, motor) ==
    IF motor.kind = "none" THEN [raised |-> "", kind |-> "none", target |-> <<>>]
    ELSE IF motor.kind = "int" THEN [raised |-> "", kind |-> "id", target |-> motor.val]
    ELSE IF motor.val[1] \notin DOMAIN view.local_to_bus
    THEN [raised |-> "KeyError", kind |-> "names", target |-> <<>>]
    ELSE [raised |-> "", kind |-> "names",
          target |-> <<view.local_to_bus[motor.val[1]]>>]

\* Faulty variant of TranslateDict: the keys are forwarded as the local names.
TranslateDictUntranslated(view, values) ==
    IF \E n \in DOMAIN values : n \notin DOMAIN view.local_to_bus
    THEN [raised |-> "KeyError", payload |-> EmptyDict]
    ELSE [raised |-> "", payload |-> values]

\* _translate_dict(values): {local_to_bus[name]: value}
TranslateDict(view, values) ==
    IF \E n \in DOMAIN values : n \notin DOMAIN view.local_to_bus
    THEN [raised |-> "KeyError", payload |-> EmptyDict]
    ELSE [raised |-> "",
          payload |-> [g \in {view.local_to_bus[n] : n \in DOMAIN values} |->
                        values[CHOOSE n \in DOMAIN values : view.local_to_bus[n] = g]]]

\* reverse = {bus_name: local for local, bus_name in local_to_bus.items()}
Reverse(view) ==
    [g \in {view.local_to_bus[n] : n \in DOMAIN view.local_to_bus} |->
        CHOOSE n \in DOMAIN view.local_to_bus : view.local_to_bus[n] = g]

\* Faulty variant of MapDictToLocal: keys the View does not own are kept.
MapDictToLocalUnfiltered(view, values) ==
    LET reverse == Reverse(view)
    IN  [k \in {IF g \in DOMAIN reverse THEN reverse[g] ELSE g : g \in DOMAIN values} |->
            values[CHOOSE g \in DOMAIN values :
                     k = (IF g \in DOMAIN reverse THEN reverse[g] ELSE g)]]

\* _map_dict_to_local(values):
\* {reverse[name]: value for name, value in values.items() if name in reverse}
MapDictToLocal(view, values) ==
    LET reverse == Reverse(view)
        kept == DOMAIN values \cap DOMAIN reverse
    IN  [k \in {reverse[g] : g \in kept} |->
            values[CHOOSE g \in kept : reverse[g] = k]]

\* FeetechBusView.is_connected
ViewIsConnected == BusTruthy(bus) /\ bus.is_connected

\* is_calibrated: False if bus is None or not bus.is_connected, else
\*   all(self.local_to_bus[name] in bus.calibration for name in self.local_motors)
IsCalibrated(view) ==
    IF bus = NoBus \/ ~bus.is_connected THEN FALSE
    ELSE \A n \in Range(view.names) : view.local_to_bus[n] \in DOMAIN bus.calibration

(* ----------------------- View: connect / disconnect ------------------- *)
ViewConnect ==
    \E v \in Views, handshake \in BOOLEAN, connect_ok \in BOOLEAN :
        LET r == AcquireResult(bus, refcount, handshake, connect_ok)
        IN  /\ refcount < MaxRef
            /\ bus' = r.bus
            /\ refcount' = r.refcount
            /\ allViews' = IF r.outcome = "ok"
                           THEN [allViews EXCEPT ![v].connected = TRUE]
                           ELSE allViews
            /\ last' = [NoCall EXCEPT !.op = "connect", !.view = v,
                                      !.calls = r.calls, !.outcome = r.outcome]
            /\ UNCHANGED <<motor_defs, calibration, views, threads>>

\* Faulty variant of Attached: every View is taken to be attached.
AttachedAlways(view) == TRUE

\* self._connected, as disconnect reads it ("if not self._connected: return").
Attached(view) == view.connected

\* Faulty variant of DisconnectCalls: release runs before the torque-disable.
DisconnectCallsReleaseFirst(tcalls, rcalls) == rcalls \o tcalls

\* The handle calls of one disconnect, in statement order: self.disable_torque()
\* first, then those of self.manager.release(disable_torque=disable_torque).
DisconnectCalls(tcalls, rcalls) == tcalls \o rcalls

\* The arguments and the attachment a disconnect call starts from.
DisconnectArg(view, disable_torque) ==
    [disable_torque |-> disable_torque, connected |-> view.connected]

\* disconnect(disable_torque): the View's own disable_torque() on the handle
\* either returns (torque_ok) or raises; then manager.release.
ViewDisconnect ==
    \E v \in Views, disable_torque \in BOOLEAN, torque_ok \in BOOLEAN,
       disconnect_ok \in BOOLEAN :
        LET view == allViews[v]
            subset == TranslateAll(view)
            torque == disable_torque /\ ViewIsConnected
                      /\ subset # <<>> /\ BusTruthy(bus)
            tcalls == IF torque THEN <<NamesCall("disable_torque", subset)>> ELSE <<>>
            r == ReleaseResult(bus, refcount, disable_torque, disconnect_ok)
            arg == DisconnectArg(view, disable_torque)
        IN  IF ~Attached(view)
            THEN /\ last' = [NoCall EXCEPT !.op = "disconnect", !.view = v, !.arg = arg]
                 /\ UNCHANGED <<motor_defs, calibration, views, bus, refcount, allViews, threads>>
            ELSE IF torque /\ ~torque_ok
            THEN /\ last' = [NoCall EXCEPT !.op = "disconnect", !.view = v, !.arg = arg,
                                !.calls = tcalls, !.outcome = "ConnectionError"]
                 /\ UNCHANGED <<motor_defs, calibration, views, bus, refcount, allViews, threads>>
            ELSE /\ bus' = r.bus
                 /\ refcount' = r.refcount
                 /\ allViews' = IF r.outcome = "ok"
                                THEN [allViews EXCEPT ![v].connected = FALSE]
                                ELSE allViews
                 /\ last' = [NoCall EXCEPT !.op = "disconnect", !.view = v, !.arg = arg,
                                !.calls = DisconnectCalls(tcalls, r.calls),
                                !.outcome = r.outcome]
                 /\ UNCHANGED <<motor_defs, calibration, views, threads>>

(* ------------------------ View: bus operations ------------------------ *)
Untouched == UNCHANGED <<motor_defs, calibration, views, bus, refcount, allViews, threads>>

IdCall(fn, target) == [fn |-> fn, kind |-> "id", motors |-> target]
NoneCall(fn) == [fn |-> fn, kind |-> "none", motors |-> <<>>]
DictCall(fn, payload) == [fn |-> fn, kind |-> "dict", motors |-> payload]

\* The call write / setup_motor makes with the translated target.
TargetCall(fn, t) ==
    IF t.kind = "id" THEN IdCall(fn, t.target)
    ELSE IF t.kind = "none" THEN NoneCall(fn)
    ELSE NamesCall(fn, t.target)

\* Faulty variant of SubsetOp: without a handle the operation raises like the data
\* operations do.
SubsetOpStrict(op, v, motors, handle_ok) ==
    LET t == TranslateMotors(allViews[v], motors)
        called == t.raised = "" /\ t.subset # <<>> /\ BusTruthy(bus)
    IN  /\ last' = [NoCall EXCEPT
                      !.op = op, !.view = v, !.arg = motors,
                      !.calls = IF called THEN <<NamesCall(op, t.subset)>> ELSE <<>>,
                      !.outcome = IF bus = NoBus THEN "RuntimeError"
                                  ELSE IF t.raised # "" THEN t.raised
                                  ELSE IF called /\ ~handle_ok THEN "ConnectionError"
                                  ELSE "ok"]
        /\ Untouched

\* disable_torque / enable_torque / configure_motors / torque_disabled:
\*   subset = self._translate_motors(motors)
\*   if subset and self.manager.bus: self.manager.bus.<op>(subset)
\* The handle's call returns (handle_ok) or raises.
SubsetOp(op, v, motors, handle_ok) ==
    LET t == TranslateMotors(allViews[v], motors)
        called == t.raised = "" /\ t.subset # <<>> /\ BusTruthy(bus)
    IN  /\ last' = [NoCall EXCEPT
                      !.op = op, !.view = v, !.arg = motors,
                      !.calls = IF called THEN <<NamesCall(op, t.subset)>> ELSE <<>>,
                      !.outcome = IF t.raised # "" THEN t.raised
                                  ELSE IF called /\ ~handle_ok THEN "ConnectionError"
                                  ELSE "ok"]
        /\ Untouched

ViewDisableTorque ==
    \E v \in Views, motors \in MotorsArgs, handle_ok \in BOOLEAN :
        SubsetOp("disable_torque", v, motors, handle_ok)

ViewEnableTorque ==
    \E v \in Views, motors \in MotorsArgs, handle_ok \in BOOLEAN :
        SubsetOp("enable_torque", v, motors, handle_ok)

ViewTorqueDisabled ==
    \E v \in Views, motors \in MotorsArgs, handle_ok \in BOOLEAN :
        SubsetOp("torque_disabled", v, motors, handle_ok)

ViewConfigureMotors ==
    \E v \in Views, motors \in MotorsArgs, handle_ok \in BOOLEAN :
        SubsetOp("configure_motors", v, motors, handle_ok)

\* Faulty variant of Uninitialized: without a handle the operation returns silently.
UninitializedSilent(op, v, arg) ==
    /\ last' = [NoCall EXCEPT !.op = op, !.view = v, !.arg = arg]
    /\ Untouched

\* if self.manager.bus is None: raise RuntimeError("Shared bus not initialized.")
Uninitialized(op, v, arg) ==
    /\ last' = [NoCall EXCEPT !.op = op, !.view = v, !.arg = arg,
                              !.outcome = "RuntimeError"]
    /\ Untouched

\* write / setup_motor: target = self._translate_motor(motor); bus.<op>(target)
TargetOp(op, v, motor, handle_ok) ==
    LET t == TranslateMotor(allViews[v], motor)
    IN  IF bus = NoBus THEN Uninitialized(op, v, motor)
        ELSE /\ last' = [NoCall EXCEPT
                           !.op = op, !.view = v, !.arg = motor,
                           !.calls = IF t.raised = "" THEN <<TargetCall(op, t)>> ELSE <<>>,
                           !.outcome = IF t.raised # "" THEN t.raised
                                       ELSE IF ~handle_ok THEN "ConnectionError"
                                       ELSE "ok"]
             /\ Untouched

ViewWrite ==
    \E v \in Views, motor \in MotorArgs, handle_ok \in BOOLEAN :
        TargetOp("write", v, motor, handle_ok)

ViewSetupMotor ==
    \E v \in Views, motor \in MotorArgs, handle_ok \in BOOLEAN :
        TargetOp("setup_motor", v, motor, handle_ok)

\* sync_write: payload = self._translate_dict(values); bus.sync_write(payload)
\* echoes: the handle is the double that stores what it is given.
SyncWrite(v, values, handle_ok, echoes) ==
    LET t == TranslateDict(allViews[v], values)
        stored == echoes /\ t.raised = "" /\ handle_ok
    IN  IF bus = NoBus THEN Uninitialized("sync_write", v, values)
        ELSE /\ last' = [NoCall EXCEPT
                           !.op = "sync_write", !.view = v, !.arg = values,
                           !.calls = IF t.raised = ""
                                     THEN <<DictCall("sync_write", t.payload)>>
                                     ELSE <<>>,
                           !.outcome = IF t.raised # "" THEN t.raised
                                       ELSE IF ~handle_ok THEN "ConnectionError"
                                       ELSE "ok"]
             /\ bus' = IF stored
                       THEN [bus EXCEPT !.registers =
                               [g \in DOMAIN @ \cup DOMAIN t.payload |->
                                   IF g \in DOMAIN t.payload THEN t.payload[g] ELSE @[g]]]
                       ELSE bus
             /\ UNCHANGED <<motor_defs, calibration, views, refcount, allViews, threads>>

ViewSyncWrite ==
    \E v \in Views, values \in DictArgs(Values), handle_ok \in BOOLEAN :
        SyncWrite(v, values, handle_ok, FALSE)

\* sync_read / set_half_turn_homings:
\*   subset = self._translate_motors(motors); result = bus.<op>(subset)
\*   return self._map_dict_to_local(result)
\* result is whatever record the handle returns.
ReadOp(op, v, motors, result) ==
    LET view == allViews[v]
        t == TranslateMotors(view, motors)
        handle_ok == ~result.raised
        returns == t.raised = "" /\ handle_ok
    IN  IF bus = NoBus THEN Uninitialized(op, v, motors)
        ELSE /\ last' = [NoCall EXCEPT
                           !.op = op, !.view = v, !.arg = motors,
                           !.calls = IF t.raised = "" THEN <<NamesCall(op, t.subset)>>
                                     ELSE <<>>,
                           !.outcome = IF t.raised # "" THEN t.raised
                                       ELSE IF ~handle_ok THEN "ConnectionError"
                                       ELSE "ok",
                           !.hret = IF returns THEN result.value ELSE EmptyDict,
                           !.ret = IF returns THEN MapDictToLocal(view, result.value)
                                   ELSE EmptyDict]
             /\ Untouched

ViewSyncRead ==
    \E v \in Views, motors \in MotorsArgs, result \in HandleReturns :
        ReadOp("sync_read", v, motors, result)

ViewSetHalfTurnHomings ==
    \E v \in Views, motors \in MotorsArgs, result \in HandleReturns :
        ReadOp("set_half_turn_homings", v, motors, result)

(* The echoing double: sync_write stores the payload, sync_read returns the
   stored values of the motors it is asked for. *)
EchoSyncWrite ==
    \E v \in Views, values \in DictArgs(Values) :
        SyncWrite(v, values, TRUE, TRUE)

EchoReturn(subset) ==
    [raised |-> FALSE,
     value |-> [g \in Range(subset) \cap DOMAIN bus.registers |-> bus.registers[g]]]

EchoSyncRead ==
    \E v \in Views, motors \in MotorsArgs :
        ReadOp("sync_read", v, motors,
               EchoReturn(TranslateMotors(allViews[v], motors).subset))

\* record_ranges_of_motion: mins, maxes = bus.record_ranges_of_motion(subset)
\*   return self._map_dict_to_local(mins), self._map_dict_to_local(maxes)
ViewRecordRangesOfMotion ==
    \E v \in Views, motors \in MotorsArgs, result \in HandleReturns :
        LET view == allViews[v]
            t == TranslateMotors(view, motors)
            handle_ok == ~result.raised
            mins == result.value
            maxes == Maxes(result.value)
            returns == t.raised = "" /\ handle_ok
            none == <<EmptyDict, EmptyDict>>
        IN  IF bus = NoBus
            THEN /\ last' = [NoCall EXCEPT
                               !.op = "record_ranges_of_motion", !.view = v,
                               !.arg = motors, !.outcome = "RuntimeError",
                               !.hret = none, !.ret = none]
                 /\ Untouched
            ELSE /\ last' = [NoCall EXCEPT
                               !.op = "record_ranges_of_motion", !.view = v,
                               !.arg = motors,
                               !.calls = IF t.raised = ""
                                         THEN <<NamesCall("record_ranges_of_motion", t.subset)>>
                                         ELSE <<>>,
                               !.outcome = IF t.raised # "" THEN t.raised
                                           ELSE IF ~handle_ok THEN "ConnectionError"
                                           ELSE "ok",
                               !.hret = IF returns THEN <<mins, maxes>> ELSE none,
                               !.ret = IF returns
                                       THEN <<MapDictToLocal(view, mins),
                                              MapDictToLocal(view, maxes)>>
                                       ELSE none]
                 /\ Untouched

\* write_calibration: translated = self._translate_dict(calibration)
\*   bus.write_calibration(translated): the handle keeps what it was given.
ViewWriteCalibration ==
    \E v \in Views, cal \in DictArgs(Calibs), handle_ok \in BOOLEAN :
        LET t == TranslateDict(allViews[v], cal)
            stored == t.raised = "" /\ handle_ok
        IN  IF bus = NoBus THEN Uninitialized("write_calibration", v, cal)
            ELSE /\ last' = [NoCall EXCEPT
                               !.op = "write_calibration", !.view = v, !.arg = cal,
                               !.calls = IF t.raised = ""
                                         THEN <<DictCall("write_calibration", t.payload)>>
                                         ELSE <<>>,
                               !.outcome = IF t.raised # "" THEN t.raised
                                           ELSE IF ~handle_ok THEN "ConnectionError"
                                           ELSE "ok"]
                 /\ bus' = IF stored THEN [bus EXCEPT !.calibration = t.payload] ELSE bus
                 /\ UNCHANGED <<motor_defs, calibration, views, refcount, allViews, threads>>

\* calibration (property): {} without a handle, else
\*   self._map_dict_to_local(bus.calibration)
ViewCalibration ==
    \E v \in Views :
        /\ last' = [NoCall EXCEPT
                      !.op = "calibration", !.view = v,
                      !.hret = bus.calibration,
                      !.ret = IF bus = NoBus THEN EmptyDict
                              ELSE MapDictToLocal(allViews[v], bus.calibration)]
        /\ Untouched

(* --------------------------- specifications --------------------------- *)
RegisterAny == Register(AllRequests)
RegisterScenario == Register(ScenarioRequests)
RegisterOps == Register(OpsRequests)
FirstAcquire == Acquire(MaxOpsRef)

\* Registration alone, over every request.
NextReg == RegisterAny
SpecReg == Init /\ [][NextReg]_vars

\* The connection lifecycle of a Manager and its Views.
Next ==
    \/ RegisterScenario
    \/ ManagerAcquire
    \/ ManagerRelease
    \/ ViewConnect
    \/ ViewDisconnect

Spec == Init /\ [][Next]_vars

\* Views driven only through their own connect and disconnect.
NextViews ==
    \/ RegisterScenario
    \/ ViewConnect
    \/ ViewDisconnect

SpecViews == Init /\ [][NextViews]_vars

\* The Manager driven only through its own acquire and release.
NextManager ==
    \/ RegisterScenario
    \/ ManagerAcquire
    \/ ManagerRelease

SpecManager == Init /\ [][NextManager]_vars

\* The Views' bus operations that write to the handle.
NextOps ==
    \/ RegisterOps
    \/ FirstAcquire
    \/ ViewDisableTorque
    \/ ViewEnableTorque
    \/ ViewTorqueDisabled
    \/ ViewConfigureMotors
    \/ ViewWrite
    \/ ViewSetupMotor
    \/ ViewSyncWrite
    \/ ViewWriteCalibration

SpecOps == Init /\ [][NextOps]_vars

\* The Views' bus operations that return what the handle returned, on a
\* handle that may return any record.
NextRead ==
    \/ RegisterOps
    \/ FirstAcquire
    \/ ViewSyncRead
    \/ ViewSetHalfTurnHomings
    \/ ViewRecordRangesOfMotion
    \/ ViewCalibration

SpecRead == Init /\ [][NextRead]_vars

\* Views of a Manager on which nothing has acquired the bus.
NextUninit ==
    \/ RegisterOps
    \/ ViewDisableTorque
    \/ ViewEnableTorque
    \/ ViewTorqueDisabled
    \/ ViewConfigureMotors
    \/ ViewWrite
    \/ ViewSetupMotor
    \/ ViewSyncWrite
    \/ ViewWriteCalibration
    \/ ViewSyncRead
    \/ ViewSetHalfTurnHomings
    \/ ViewRecordRangesOfMotion
    \/ ViewCalibration

SpecUninit == Init /\ [][NextUninit]_vars

\* Batch write and batch read against the double that echoes stored values.
NextEcho ==
    \/ RegisterOps
    \/ FirstAcquire
    \/ EchoSyncWrite
    \/ EchoSyncRead

SpecEcho == Init /\ [][NextEcho]_vars

(* ------------------------------- claims ------------------------------- *)
HasCall(calls, fn) == \E i \in DOMAIN calls : calls[i].fn = fn

AttachedViews == {v \in Views : allViews[v].connected}

\* C1: over any sequence of acquire and release calls on one Manager, the
\* handle's connect is performed exactly on the acquire calls that take the
\* reference count from 0 to 1, and its disconnect exactly on the release
\* calls that take the count back to 0.
C1_ConnectExactlyOnZeroTransitions ==
    [][ /\ last'.op = "acquire" =>
            (HasCall(last'.calls, "connect") <=> (refcount = 0 /\ refcount' = 1))
        /\ last'.op = "release" =>
            (HasCall(last'.calls, "disconnect") <=> (refcount = 1 /\ refcount' = 0))
      ]_vars

\* C2: after every completed Manager or View operation, also one in which
\* the handle's connect or disconnect raised, the physical connection exists
\* if and only if the reference count is greater than zero.
C2_ConnectedIffCounted == ViewIsConnected <=> refcount > 0

\* C3: register_component is atomic per call: when it fails with a name
\* collision on any of its local motors, the Global Namespace and the Global
\* Calibration Table are what they were before the call and no View is
\* recorded.
C3_FailedRegistrationCommitsNothing ==
    [][ (last'.op = "register_component" /\ last'.outcome = "ValueError") =>
            /\ motor_defs' = motor_defs
            /\ calibration' = calibration
            /\ views' = views
            /\ allViews' = allViews
      ]_vars

\* C4: a successful register_component call with prefix P and offset O puts,
\* for every local motor (n, i) of the call, P+n in the Global Namespace with
\* id i+O and the same model and normalization mode, gives the returned View
\* the local motor n with id i+O and the map n -> P+n, and leaves every
\* earlier entry of the Global Namespace as it was.
C4_RegistrationRenamesAndRenumbers ==
    [][ (last'.op = "register_component" /\ last'.outcome = "ok") =>
            LET a == last'.arg
                view == allViews'[last'.view]
            IN  /\ \A i \in DOMAIN a.names :
                      LET n == a.names[i]
                          g == a.prefix \o n
                          local == SubDeviceMotor(n)
                      IN  /\ g \in DOMAIN motor_defs'
                          /\ motor_defs'[g].id = local.id + a.motor_id_offset
                          /\ motor_defs'[g].model = local.model
                          /\ motor_defs'[g].norm_mode = local.norm_mode
                          /\ n \in DOMAIN view.local_motors
                          /\ view.local_motors[n].id = local.id + a.motor_id_offset
                          /\ n \in DOMAIN view.local_to_bus
                          /\ view.local_to_bus[n] = g
                /\ \A g \in DOMAIN motor_defs :
                      g \in DOMAIN motor_defs' /\ motor_defs'[g] = motor_defs[g]
      ]_vars

\* A second component registered both its motors under prefix "l_" with
\* offset 1, next to an entry that was already there.
C4_Witness ==
    /\ last.op = "register_component"
    /\ last.outcome = "ok"
    /\ last.arg.prefix = "l_"
    /\ last.arg.motor_id_offset = 1
    /\ Len(last.arg.names) = 2
    /\ Cardinality(DOMAIN motor_defs) = 3

\* C5: a physical connection is up exactly while some View is attached: the
\* first connect of a View brings it up, a disconnect that leaves another
\* View attached keeps it, and the disconnect after which no View remains
\* attached takes it down.
C5_ConnectedIffSomeViewAttached == ViewIsConnected <=> AttachedViews # {}

OwnBusNames(view) == {view.local_to_bus[n] : n \in Range(view.names)}

OwnIds(view) == {view.local_motors[n].id : n \in Range(view.names)}

\* out is the part of record rec that belongs to view, under local names.
LocalImage(view, rec, out) ==
    /\ DOMAIN out \subseteq Range(view.names)
    /\ \A n \in DOMAIN out : view.local_to_bus[n] \in DOMAIN rec
    /\ \A g \in DOMAIN rec : \A n \in Range(view.names) :
          view.local_to_bus[n] = g => (n \in DOMAIN out /\ out[n] = rec[g])

\* C6: what a View returns from sync_read, set_half_turn_homings,
\* record_ranges_of_motion and the calibration property is keyed only by its
\* own local names: every bus key of the handle's record that is in the
\* View's map appears under its local name with the same value, every other
\* bus key is dropped, whatever record the handle returned.
C6_ResultsAreLocalToTheView ==
    (last.view # 0 /\ last.outcome = "ok") =>
        /\ last.op \in {"sync_read", "set_half_turn_homings", "calibration"} =>
              LocalImage(allViews[last.view], last.hret, last.ret)
        /\ last.op = "record_ranges_of_motion" =>
              /\ LocalImage(allViews[last.view], last.hret[1], last.ret[1])
              /\ LocalImage(allViews[last.view], last.hret[2], last.ret[2])

\* A sync_read of one of two Views returned, and the handle's record held a
\* motor of the View and a motor that is not the View's.
C6_Witness ==
    /\ last.op = "sync_read"
    /\ last.outcome = "ok"
    /\ Len(allViews) = 2
    /\ last.ret # EmptyDict
    /\ \E g \in DOMAIN last.hret : g \notin OwnBusNames(allViews[last.view])

\* C7: every motor a View addresses on the handle is one of its own: the
\* names forwarded are bus names of the View's local motors, an id forwarded
\* is the id of one of them, and with no motor specified the forwarded names
\* are exactly the View's own.
C7_ForwardsOnlyOwnMotors ==
    (last.view # 0 /\ last.op # "register_component") =>
        \A i \in DOMAIN last.calls :
            LET c == last.calls[i]
                view == allViews[last.view]
            IN  /\ c.kind = "names" =>
                      /\ Range(c.motors) \subseteq OwnBusNames(view)
                      /\ last.arg.kind = "none" => Range(c.motors) = OwnBusNames(view)
                /\ c.kind = "dict" => DOMAIN c.motors \subseteq OwnBusNames(view)
                /\ c.kind = "id" => Range(c.motors) \subseteq OwnIds(view)

\* The local names a motors argument of a View names.
ArgNames(view, motors) ==
    IF motors.kind = "none" THEN Range(view.names) ELSE Range(motors.val)

\* C8: against the handle that echoes stored values, a sync_write keyed by
\* local names followed by a sync_read of the same local names on the same
\* View returns the written mapping unchanged; the handle is called with the
\* bus names of those motors only, and the write leaves what the other Views
\* wrote to their motors as it was.
C8_WriteThenReadReturnsTheValues ==
    [][ /\ (/\ last.op = "sync_write" /\ last.outcome = "ok"
            /\ last'.op = "sync_read" /\ last'.view = last.view
            /\ last'.arg.kind # "int"
            /\ ArgNames(allViews[last.view], last'.arg) = DOMAIN last.arg)
           => (last'.outcome = "ok" /\ last'.ret = last.arg)
        /\ (last'.op = "sync_write" /\ last'.outcome = "ok") =>
              LET view == allViews[last'.view]
                  payload == last'.calls[1].motors
              IN  /\ DOMAIN payload = {view.local_to_bus[n] : n \in DOMAIN last'.arg}
                  /\ DOMAIN payload \subseteq DOMAIN motor_defs
                  /\ \A g \in DOMAIN bus.registers \ OwnBusNames(view) :
                        /\ g \in DOMAIN bus'.registers
                        /\ bus'.registers[g] = bus.registers[g]
        /\ (last'.op = "sync_read" /\ last'.outcome = "ok") =>
              Range(last'.calls[1].motors) \subseteq DOMAIN motor_defs
      ]_vars

\* A View read back both its motors while another View with the same local
\* name "m" holds a different value for its own "m".
C8_Witness ==
    /\ last.op = "sync_read"
    /\ last.outcome = "ok"
    /\ DOMAIN last.ret = {"m", "l_m"}
    /\ \E w \in Views \ {last.view} :
          /\ "m" \in DOMAIN allViews[w].local_to_bus
          /\ allViews[w].local_to_bus["m"] \in DOMAIN bus.registers
          /\ bus.registers[allViews[w].local_to_bus["m"]] # last.ret["m"]

DataOps ==
    {"write", "sync_write", "sync_read", "set_half_turn_homings",
     "record_ranges_of_motion", "write_calibration", "setup_motor"}

\* C9: on a View whose Manager has no handle, write, sync_write, sync_read,
\* set_half_turn_homings, record_ranges_of_motion, write_calibration and
\* setup_motor raise the uninitialized-bus error for every argument, make no
\* handle, and change neither the namespace, the calibration table, the
\* reference count nor any View.
C9_DataOperationsRaiseWithoutHandle ==
    [][ (last'.op \in DataOps /\ bus = NoBus) =>
            /\ last'.outcome = "RuntimeError"
            /\ last'.calls = <<>>
            /\ bus' = NoBus
            /\ motor_defs' = motor_defs
            /\ calibration' = calibration
            /\ refcount' = refcount
            /\ allViews' = allViews
      ]_vars

\* write_calibration was called on one of two Views with no handle.
C9_Witness ==
    /\ bus = NoBus
    /\ last.op = "write_calibration"
    /\ last.outcome = "RuntimeError"
    /\ Len(allViews) = 2

\* A motors argument that names only local motors of the View.
ValidMotors(view, motors) ==
    motors.kind # "int" /\ Range(motors.val) \subseteq Range(view.names)

\* C10: on a View whose Manager has no handle, enable_torque and
\* disable_torque, for one motor, a subset or all local motors, return
\* without error and without effect: no handle is made, no handle call is
\* made and no Manager or View state changes.
C10_TorqueIsNoOpWithoutHandle ==
    [][ (/\ last'.op \in {"enable_torque", "disable_torque"}
         /\ bus = NoBus
         /\ ValidMotors(allViews[last'.view], last'.arg)) =>
            /\ last'.outcome = "ok"
            /\ last'.calls = <<>>
            /\ bus' = NoBus
            /\ motor_defs' = motor_defs
            /\ calibration' = calibration
            /\ views' = views
            /\ refcount' = refcount
            /\ allViews' = allViews
      ]_vars

\* disable_torque() for all local motors returned on a View with no handle.
C10_Witness ==
    /\ bus = NoBus
    /\ last.op = "disable_torque"
    /\ last.arg.kind = "none"
    /\ last.outcome = "ok"
    /\ Len(allViews) = 2

\* C11: a View's is_calibrated is false whenever the View is not attached
\* through its own connect, and it is true only if the View is connected and
\* the bus name of every one of its local motors is in the Global
\* Calibration Table.
C11_CalibratedOnlyWhileAttached ==
    \A v \in Views :
        IsCalibrated(allViews[v]) =>
            /\ allViews[v].connected
            /\ ViewIsConnected
            /\ \A n \in Range(allViews[v].names) :
                  allViews[v].local_to_bus[n] \in DOMAIN calibration

\* C12: disconnect of a View that is not attached is a no-op: no handle call,
\* no release, the reference count and every other variable unchanged; so a
\* second disconnect after a completed one leaves the state of the first and
\* takes no reference held by another View.
C12_DisconnectIsIdempotent ==
    [][ /\ (last'.op = "disconnect" /\ ~allViews[last'.view].connected) =>
              /\ last'.outcome = "ok"
              /\ last'.calls = <<>>
              /\ UNCHANGED <<motor_defs, calibration, views, bus, refcount, allViews>>
        /\ (/\ last.op = "disconnect" /\ last.outcome = "ok"
            /\ last'.op = "disconnect" /\ last'.view = last.view) =>
              /\ last'.outcome = "ok"
              /\ last'.calls = <<>>
              /\ UNCHANGED <<motor_defs, calibration, views, bus, refcount, allViews>>
      ]_vars

\* A View that was not attached called disconnect while another View holds
\* the only reference and the bus is connected.
C12_Witness ==
    /\ last.op = "disconnect"
    /\ ~last.arg.connected
    /\ refcount = 1
    /\ ViewIsConnected
    /\ \E w \in AttachedViews : w # last.view

\* C13: the reference count is a non-negative integer in every reachable
\* state, and release called at count zero returns with no effect: the count
\* stays zero, no torque-disable or disconnect call reaches the handle, and
\* the handle and its connection state are unchanged.
C13_ReleaseAtZeroIsNoOp ==
    /\ [](refcount \in Nat)
    /\ [][ (last'.op = "release" /\ refcount = 0) =>
              /\ refcount' = 0
              /\ last'.outcome = "ok"
              /\ last'.calls = <<>>
              /\ bus' = bus
              /\ UNCHANGED <<motor_defs, calibration, views, allViews>>
          ]_vars

\* release returned at count zero while the handle is still connected (the
\* handle's disconnect had raised on the release that took the count to 0).
C13_Witness ==
    /\ last.op = "release"
    /\ last.outcome = "ok"
    /\ last.calls = <<>>
    /\ refcount = 0
    /\ ViewIsConnected

\* The bus names a View's map sends its local names to.
Image(view) == {view.local_to_bus[n] : n \in DOMAIN view.local_to_bus}

\* C14: after any sequence of register_component calls, successful or
\* failed, also under a component name used before, every View's
\* local-to-bus map is total on the View's local motors and injective, the
\* maps of two distinct Views have disjoint images, and a registration never
\* overwrites an existing key of the Global Namespace.
C14_ViewsOwnDisjointNames ==
    /\ [](\A v \in Views :
            LET view == allViews[v]
            IN  /\ DOMAIN view.local_to_bus = DOMAIN view.local_motors
                /\ DOMAIN view.local_to_bus = Range(view.names)
                /\ \A a, b \in DOMAIN view.local_to_bus :
                      view.local_to_bus[a] = view.local_to_bus[b] => a = b
                /\ Image(view) \subseteq DOMAIN motor_defs
                /\ \A w \in Views \ {v} : Image(view) \cap Image(allViews[w]) = {})
    /\ [][ \A g \in DOMAIN motor_defs :
              g \in DOMAIN motor_defs' /\ motor_defs'[g] = motor_defs[g] ]_vars

\* A registration failed after a component name had been registered twice:
\* two Views exist under one component name.
C14_Witness ==
    /\ last.op = "register_component"
    /\ last.outcome = "ValueError"
    /\ Len(allViews) >= 2
    /\ Cardinality(DOMAIN views) = 1

(* --------------------- XLeRobotConfig construction -------------------- *)
BUS_MODE_SEPARATE == "separate_buses"
BUS_MODE_SHARED == "shared_buses"

\* bus_mode values a caller passes: unset (""), the two modes, another string.
BusModes == {"", BUS_MODE_SEPARATE, BUS_MODE_SHARED, "bogus_mode"}

CfgBusNames == {"b1", "b2"}
BusTypes == {"feetech", "dynamixel"}

\* shared_buses: a dict from bus name to the descriptor's type.
SharedBusesArgs == UNION {[D -> BusTypes] : D \in SUBSET CfgBusNames}

RegistryTypes == {"so101_follower", "lekiwi_base", "xlerobot_mount"}
ComponentTypes == {"so101_follower", "lekiwi_base", "bogus_type"}

\* One component descriptor (name, type, bus, prefix, motor_id_offset).
ComponentSpecs ==
    {[name |-> IF p = "" THEN "right" ELSE "left", type |-> t, bus |-> b,
      prefix |-> p, motor_id_offset |-> IF p = "" THEN 1 ELSE 0] :
        t \in ComponentTypes, b \in CfgBusNames, p \in Prefixes}

\* shared_components: a list of up to two descriptors.
SharedComponentsArgs ==
    {<<>>} \cup {<<c>> : c \in ComponentSpecs}
           \cup {<<c, d>> : c \in ComponentSpecs, d \in ComponentSpecs}

NoConfig == [shared_bus_configs |-> EmptyDict, shared_component_configs |-> <<>>]

\* _init_shared_mode: the two emptiness tests, the loop over the buses that
\* raises at a type other than "feetech", the loop over the components that
\* raises at a bus that is not configured.
InitSharedMode(shared_buses, shared_components) ==
    IF shared_buses = EmptyDict THEN [raised |-> "ValueError", cfg |-> NoConfig]
    ELSE IF shared_components = <<>> THEN [raised |-> "ValueError", cfg |-> NoConfig]
    ELSE IF \E name \in DOMAIN shared_buses : shared_buses[name] # "feetech"
    THEN [raised |-> "ValueError", cfg |-> NoConfig]
    ELSE IF \E i \in DOMAIN shared_components :
                shared_components[i].bus \notin DOMAIN shared_buses
    THEN [raised |-> "ValueError", cfg |-> NoConfig]
    ELSE [raised |-> "",
          cfg |-> [shared_bus_configs |-> shared_buses,
                   shared_component_configs |-> shared_components]]

\* _init_separate_mode with no arms, base or mount given:
\*   self.shared_bus_configs = {}; self.shared_component_configs = []
InitSeparateMode == [raised |-> "", cfg |-> NoConfig]

\* __post_init__: bus_mode = bus_mode or BUS_MODE_SEPARATE;
\*   shared mode if bus_mode == BUS_MODE_SHARED, else separate mode.
PostInit(bus_mode, shared_buses, shared_components) ==
    LET mode == IF bus_mode = "" THEN BUS_MODE_SEPARATE ELSE bus_mode
    IN  IF mode = BUS_MODE_SHARED
        THEN InitSharedMode(shared_buses, shared_components)
        ELSE InitSeparateMode

\* XLeRobotConfig(bus_mode=..., shared_buses=..., shared_components=...)
ConstructConfig ==
    \E bus_mode \in BusModes, shared_buses \in SharedBusesArgs,
       shared_components \in SharedComponentsArgs :
        LET r == PostInit(bus_mode, shared_buses, shared_components)
        IN  /\ last' = [NoCall EXCEPT
                          !.op = "XLeRobotConfig",
                          !.arg = [bus_mode |-> bus_mode, shared_buses |-> shared_buses,
                                   shared_components |-> shared_components],
                          !.outcome = IF r.raised = "" THEN "ok" ELSE r.raised,
                          !.ret = r.cfg]
            /\ Untouched

NextConfig == ConstructConfig
SpecConfig == Init /\ [][NextConfig]_vars

\* C15: constructing the assembly configuration fails with an error for an
\* assembly mode that is neither separate_buses nor shared_buses and, in
\* shared mode, for an empty bus list, an empty component list, a bus whose
\* type is not feetech and a component whose bus is not configured; an
\* accepted shared-mode configuration has every component's bus among its
\* bus descriptors.
C15_InvalidConfigurationIsRejected ==
    last.op = "XLeRobotConfig" =>
        LET a == last.arg
        IN  /\ a.bus_mode \notin {"", BUS_MODE_SEPARATE, BUS_MODE_SHARED} =>
                  last.outcome # "ok"
            /\ a.bus_mode = BUS_MODE_SHARED =>
                  /\ a.shared_buses = EmptyDict => last.outcome # "ok"
                  /\ a.shared_components = <<>> => last.outcome # "ok"
                  /\ (\E n \in DOMAIN a.shared_buses : a.shared_buses[n] # "feetech")
                        => last.outcome # "ok"
                  /\ (\E i \in DOMAIN a.shared_components :
                          a.shared_components[i].bus \notin DOMAIN a.shared_buses)
                        => last.outcome # "ok"
                  /\ last.outcome = "ok" =>
                        \A i \in DOMAIN last.ret.shared_component_configs :
                            last.ret.shared_component_configs[i].bus
                                \in DOMAIN last.ret.shared_bus_configs

(* ----------------------- build_shared_components ---------------------- *)
\* robot.bus.motors of the sub-device a registry type instantiates, in order.
RobotMotorNames(type) ==
    IF type = "so101_follower" THEN <<"m", "l_m">> ELSE <<"m">>

\* robot.calibration of the sub-device a registry type instantiates.
RobotCalibration(type) ==
    IF type = "so101_follower" THEN [n \in {"m"} |-> "calA"] ELSE EmptyDict

\* FeetechBusManager(name, bus_cfg): __init__
NewManager ==
    [motor_defs |-> EmptyDict, calibration |-> EmptyDict, views |-> EmptyDict,
     bus |-> NoBus, refcount |-> 0]

\* A configuration object as build_shared_components receives it: feetech
\* bus descriptors by name and a list of component descriptors.
BuildConfigs ==
    [shared_bus_configs : UNION {[D -> {"feetech"}] : D \in SUBSET CfgBusNames},
     shared_component_configs : SharedComponentsArgs]

\* aliases = list(action_aliases or []) with the prefix appended when it is
\* non-empty and not yet in the list; action_aliases is left at its default.
Aliases(prefix) == IF prefix # "" THEN <<prefix>> ELSE <<>>

\* One iteration of the loop over cfg.shared_component_configs; acc holds
\* bus_managers, bindings and whether an iteration has raised.
BuildStep(acc, component_spec) ==
    IF acc.raised THEN acc
    ELSE IF component_spec.type \notin RegistryTypes
    THEN [acc EXCEPT !.raised = TRUE]
    ELSE IF component_spec.bus \notin DOMAIN acc.bus_managers
    THEN [acc EXCEPT !.raised = TRUE]
    ELSE LET bus_manager == acc.bus_managers[component_spec.bus]
             st0 == [motor_defs |-> bus_manager.motor_defs,
                     calibration |-> bus_manager.calibration,
                     local_copy |-> EmptyDict, mapping |-> EmptyDict,
                     names |-> <<>>, raised |-> FALSE]
             st == RegisterLoop(st0, RobotMotorNames(component_spec.type), 1,
                                component_spec.prefix, component_spec.motor_id_offset,
                                RobotCalibration(component_spec.type))
             view == NewView(st)
             registered == [bus_manager EXCEPT
                              !.motor_defs = st.motor_defs,
                              !.calibration = st.calibration,
                              !.views = IF st.raised THEN @
                                        ELSE Put(@, component_spec.name, view)]
         IN  IF st.raised
             THEN [acc EXCEPT !.raised = TRUE,
                              !.bus_managers[component_spec.bus] = registered]
             ELSE [acc EXCEPT
                     !.bus_managers[component_spec.bus] = registered,
                     !.bindings = Append(@,
                        [name |-> component_spec.name,
                         prefix |-> component_spec.prefix,
                         aliases |-> Aliases(component_spec.prefix),
                         robot |-> [type |-> component_spec.type, bus |-> view],
                         bus_manager |-> component_spec.bus])]

RECURSIVE BuildLoop(_, _, _)
BuildLoop(acc, specs, i) ==
    IF i > Len(specs) THEN acc
    ELSE BuildLoop(BuildStep(acc, specs[i]), specs, i + 1)

NoBuild == [bindings |-> <<>>, bus_managers |-> EmptyDict]

\* Faulty variant of BuildReturn: what was built before the error is handed out.
BuildReturnPartial(acc) ==
    [bindings |-> acc.bindings, bus_managers |-> acc.bus_managers]

\* What the caller receives: the pair (bindings, bus_managers) at the return
\* statement, nothing when an iteration raised.
BuildReturn(acc) ==
    IF acc.raised THEN NoBuild
    ELSE [bindings |-> acc.bindings, bus_managers |-> acc.bus_managers]

BuildSharedComponents ==
    \E cfg \in BuildConfigs :
        LET acc0 == [bus_managers |-> [name \in DOMAIN cfg.shared_bus_configs |-> NewManager],
                     bindings |-> <<>>, raised |-> FALSE]
            acc == BuildLoop(acc0, cfg.shared_component_configs, 1)
        IN  /\ last' = [NoCall EXCEPT
                          !.op = "build_shared_components",
                          !.arg = cfg,
                          !.outcome = IF acc.raised THEN "ValueError" ELSE "ok",
                          !.ret = BuildReturn(acc)]
            /\ Untouched

NextBuild == BuildSharedComponents
SpecBuild == Init /\ [][NextBuild]_vars

\* The global names of the component descriptors before position i that
\* sit on the same bus as descriptor i.
EarlierNames(specs, i) ==
    UNION {{BusName(specs[j].prefix, n) : n \in Range(RobotMotorNames(specs[j].type))} :
              j \in {k \in 1 .. (i - 1) : specs[k].bus = specs[i].bus}}

\* Descriptor i of the list cannot be wired: unknown type, unknown bus, or a
\* global-name collision with an earlier descriptor on its bus.
Unwirable(cfg, i) ==
    LET specs == cfg.shared_component_configs
    IN  \/ specs[i].type \notin RegistryTypes
        \/ specs[i].bus \notin DOMAIN cfg.shared_bus_configs
        \/ {BusName(specs[i].prefix, n) : n \in Range(RobotMotorNames(specs[i].type))}
              \cap EarlierNames(specs, i) # {}

\* C16: build_shared_components is all-or-nothing and makes no hardware
\* I/O: with a component of a type outside the registry, on an unknown bus,
\* or colliding with an earlier component's global names it raises and
\* returns no bindings and no managers; otherwise it returns one binding per
\* configured component in configuration order, each sub-device's bus being
\* the View its manager returned; in both cases no handle is constructed or
\* connected.
C16_BuildIsAllOrNothing ==
    last.op = "build_shared_components" =>
        LET cfg == last.arg
            specs == cfg.shared_component_configs
            bad == \E i \in DOMAIN specs : Unwirable(cfg, i)
        IN  /\ bad => (last.outcome = "ValueError" /\ last.ret = NoBuild)
            /\ ~bad =>
                  /\ last.outcome = "ok"
                  /\ Len(last.ret.bindings) = Len(specs)
                  /\ DOMAIN last.ret.bus_managers = DOMAIN cfg.shared_bus_configs
                  /\ \A i \in DOMAIN specs :
                        LET b == last.ret.bindings[i]
                            m == last.ret.bus_managers[specs[i].bus]
                        IN  /\ b.name = specs[i].name
                            /\ b.prefix = specs[i].prefix
                            /\ b.bus_manager = specs[i].bus
                            /\ b.robot.type = specs[i].type
                            /\ specs[i].name \in DOMAIN m.views
                            /\ b.robot.bus = m.views[specs[i].name]
                            /\ b.robot.bus.names = RobotMotorNames(specs[i].type)
                            /\ \A n \in Range(b.robot.bus.names) :
                                  b.robot.bus.local_to_bus[n] = BusName(specs[i].prefix, n)
            /\ last.calls = <<>>
            /\ bus = NoBus
            /\ \A name \in DOMAIN last.ret.bus_managers :
                  /\ last.ret.bus_managers[name].bus = NoBus
                  /\ last.ret.bus_managers[name].refcount = 0

\* The second of two components on one bus collided with the global names
\* of the first, which had been registered: the call raised.
C16_Witness ==
    /\ last.op = "build_shared_components"
    /\ last.outcome = "ValueError"
    /\ Len(last.arg.shared_component_configs) = 2
    /\ ~Unwirable(last.arg, 1)
    /\ last.arg.shared_component_configs[2].type \in RegistryTypes
    /\ last.arg.shared_component_configs[2].bus \in DOMAIN last.arg.shared_bus_configs

(* ------------------------ the handle's lifetime ----------------------- *)
\* Registration, the Manager's acquire and release, and the View calls that
\* work without a handle (torque enable / disable, the calibration property).
NextHandle ==
    \/ RegisterOps
    \/ ManagerAcquire
    \/ ManagerRelease
    \/ ViewEnableTorque
    \/ ViewDisableTorque
    \/ ViewCalibration

SpecHandle == Init /\ [][NextHandle]_vars

\* C17: the handle is lazy and constructed at most once: no call but the
\* first acquire makes it (registration, torque and property calls leave bus
\* None), the first acquire constructs it from the Global Namespace and
\* Calibration Table as they are then, and afterwards it is never replaced:
\* release keeps it, a later acquire at count 0 reconnects it, any other
\* acquire leaves it as it is, and a register_component after the first
\* acquire leaves it as it is.
C17_HandleIsLazyAndConstructedOnce ==
    [][ /\ (bus = NoBus /\ last'.op # "acquire") => bus' = NoBus
        /\ (bus = NoBus /\ last'.op = "acquire") =>
              /\ bus'.exists
              /\ bus'.motors = motor_defs
              /\ bus'.calibration = calibration
        /\ bus.exists =>
              /\ bus'.exists
              /\ bus'.motors = bus.motors
              /\ bus'.calibration = bus.calibration
        /\ (bus.exists /\ last'.op = "acquire") =>
              IF refcount = 0 /\ ~bus.is_connected
              THEN /\ last'.calls = <<ConnectCall(last'.calls[1].motors[1])>>
                   /\ bus' \in {bus, [bus EXCEPT !.is_connected = TRUE]}
              ELSE last'.calls = <<>> /\ bus' = bus
        /\ (bus.exists /\ last'.op = "register_component") => bus' = bus
      ]_vars

\* A register_component call succeeded while the handle, constructed from a
\* non-empty namespace, is connected: the handle still holds the tables of
\* its construction, which now differ from the Global Namespace.
C17_Witness ==
    /\ last.op = "register_component"
    /\ last.outcome = "ok"
    /\ bus.exists
    /\ bus.is_connected
    /\ bus.motors # motor_defs
    /\ bus.motors # EmptyDict

\* C18: after any sequence of View connect and disconnect calls, the
\* reference count equals the number of Views that are attached, also when a
\* View connects twice and when the handle's connect or torque-disable
\* raises.
C18_CountEqualsAttachedViews ==
    refcount = Cardinality(AttachedViews)

\* Two logs hold the same handle calls in the same order.
SameCalls(s, t) ==
    /\ Len(s) = Len(t)
    /\ \A i \in DOMAIN s : s[i].fn = t[i].fn /\ s[i].motors = t[i].motors

\* C19: on an attached View, disconnect(disable_torque) first disables torque
\* on exactly the View's own motors when disable_torque is requested and the
\* bus is connected, then calls release once with the same flag, then marks
\* the View detached; with disable_torque false no torque-disable call is
\* made for the View's motors; and the handle's connection state changes
\* only in a handle connect or disconnect call made by acquire or release.
C19_DisconnectOrder ==
    [][ /\ (last'.op = "disconnect" /\ allViews[last'.view].connected) =>
              LET v == last'.view
                  flag == last'.arg.disable_torque
                  torque == flag /\ ViewIsConnected
                  tcall == NamesCall("disable_torque", TranslateAll(allViews[v]))
                  rcalls == IF refcount = 1 /\ ViewIsConnected
                            THEN <<DisconnectCall(flag)>> ELSE <<>>
                  torque_raised == torque /\ SameCalls(last'.calls, <<tcall>>)
                                          /\ last'.outcome # "ok"
              IN  /\ torque => (last'.calls # <<>> /\ SameCalls(<<last'.calls[1]>>, <<tcall>>))
                  /\ ~torque => ~HasCall(last'.calls, "disable_torque")
                  /\ torque_raised =>
                        /\ refcount' = refcount
                        /\ bus' = bus
                        /\ allViews' = allViews
                  /\ ~torque_raised =>
                        /\ SameCalls(last'.calls,
                                     (IF torque THEN <<tcall>> ELSE <<>>) \o rcalls)
                        /\ refcount' = (IF refcount = 0 THEN 0 ELSE refcount - 1)
                        /\ allViews'[v].connected = (last'.outcome # "ok")
        /\ (bus'.is_connected # bus.is_connected) =>
              /\ last'.op \in {"connect", "disconnect"}
              /\ IF last'.op = "connect"
                 THEN refcount = 0 /\ HasCall(last'.calls, "connect")
                 ELSE refcount = 1 /\ HasCall(last'.calls, "disconnect")
      ]_vars

\* One of two Views, attached, disconnected with disable_torque set: torque
\* was disabled on its own motors and the handle was disconnected.
C19_Witness ==
    /\ last.op = "disconnect"
    /\ last.arg.connected
    /\ last.arg.disable_torque
    /\ last.outcome = "ok"
    /\ Len(last.calls) = 2
    /\ Len(allViews) = 2
    /\ ~allViews[last.view].connected

(* --------------- acquire run by two threads, no lock held ------------- *)
\* Another thread is inside acquire.
Overlaps(t) == \E u \in Threads \ {t} : threads[u].pc \notin {"idle", "done"}

\* Thread t moves to pc with its record changed to rec; it notes whether it
\* ran while another thread was inside acquire.
Step(t, rec, pc) ==
    threads' = [threads EXCEPT
                  ![t] = [rec EXCEPT !.pc = pc,
                                     !.alone = rec.alone /\ ~Overlaps(t)]]

\* Faulty variant of ConnectTest: the count is not compared with 1.
ConnectTestAnyCount(rc, b) == BusTruthy(b) /\ ~b.is_connected

\* if self._refcount == 1 and self.bus and not self.bus.is_connected:
ConnectTest(rc, b) == rc = 1 /\ BusTruthy(b) /\ ~b.is_connected

\* A thread calls manager.acquire(handshake).
ThreadCall(t) ==
    \E handshake \in BOOLEAN :
        /\ threads[t].pc = "idle"
        /\ Step(t, [threads[t] EXCEPT !.handshake = handshake], "ensure")
        /\ UNCHANGED <<motor_defs, calibration, views, bus, refcount, allViews, last>>

\* _ensure_bus: if self.bus is None
ThreadEnsure(t) ==
    /\ threads[t].pc = "ensure"
    /\ Step(t, threads[t], IF bus = NoBus THEN "create" ELSE "load")
    /\ UNCHANGED <<motor_defs, calibration, views, bus, refcount, allViews, last>>

\* _ensure_bus: self.bus = FeetechMotorsBus(...)
ThreadCreate(t) ==
    /\ threads[t].pc = "create"
    /\ bus' = NewBus
    /\ Step(t, [threads[t] EXCEPT !.created = TRUE], "load")
    /\ UNCHANGED <<motor_defs, calibration, views, refcount, allViews, last>>

\* self._refcount += 1, first half: the value of self._refcount is read.
ThreadLoad(t) ==
    /\ threads[t].pc = "load"
    /\ Step(t, [threads[t] EXCEPT !.loaded = refcount], "store")
    /\ UNCHANGED <<motor_defs, calibration, views, bus, refcount, allViews, last>>

\* self._refcount += 1, second half: the value read plus one is stored.
ThreadStore(t) ==
    /\ threads[t].pc = "store"
    /\ refcount' = threads[t].loaded + 1
    /\ Step(t, threads[t], "test")
    /\ UNCHANGED <<motor_defs, calibration, views, bus, allViews, last>>

\* the if statement guarding the connect
ThreadTest(t) ==
    /\ threads[t].pc = "test"
    /\ Step(t, threads[t], IF ConnectTest(refcount, bus) THEN "connect" ELSE "done")
    /\ UNCHANGED <<motor_defs, calibration, views, bus, refcount, allViews, last>>

\* self.bus.connect(handshake=handshake_flag): returns with the port open,
\* or raises with no connection made.
ThreadConnect(t) ==
    \E connect_ok \in BOOLEAN :
        /\ threads[t].pc = "connect"
        /\ bus' = [bus EXCEPT !.is_connected = connect_ok]
        /\ Step(t, [threads[t] EXCEPT !.connect_called = TRUE], "done")
        /\ UNCHANGED <<motor_defs, calibration, views, refcount, allViews, last>>

\* The tables the handle is constructed from are registered beforehand.
RegisterBeforeThreads ==
    /\ \A t \in Threads : threads[t].pc = "idle"
    /\ RegisterOps

NextThreads ==
    \/ RegisterBeforeThreads
    \/ \E t \in Threads :
          \/ ThreadCall(t)
          \/ ThreadEnsure(t)
          \/ ThreadCreate(t)
          \/ ThreadLoad(t)
          \/ ThreadStore(t)
          \/ ThreadTest(t)
          \/ ThreadConnect(t)

SpecThreads == Init /\ [][NextThreads]_vars

Creators == {t \in Threads : threads[t].created}

Connectors == {t \in Threads : threads[t].connect_called}

\* No thread ever ran while another one was inside acquire.
Serial == \A t \in Threads : threads[t].alone

Quiescent == \A t \in Threads : threads[t].pc \in {"idle", "done"}

\* The acquire calls that have returned or raised.
Completed == {t \in Threads : threads[t].pc = "done"}

\* C20: the Manager holds no lock and its guarantees need serial use: while
\* every acquire runs to completion before the next one starts, at most one
\* handle is constructed, the count is the number of completed calls and
\* exactly one physical connect is made once a call has taken the count
\* from 0 to 1; so a state with two handles constructed, with a positive
\* count and no connect, or with two connects is reached only when two
\* acquire calls interleave.
C20_GuaranteesNeedSerialUse ==
    Serial =>
        /\ Cardinality(Creators) <= 1
        /\ Cardinality(Connectors) <= 1
        /\ Quiescent =>
              /\ refcount = Cardinality(Completed)
              /\ refcount > 0 => (Cardinality(Creators) = 1 /\ Cardinality(Connectors) = 1)

\* Two interleaved acquire calls have completed: two handles were
\* constructed and two physical connects were made.
C20_Witness ==
    /\ Completed = Threads
    /\ ~Serial
    /\ Creators = Threads
    /\ Connectors = Threads

\* Two interleaved acquire calls have completed with a positive count and no
\* physical connect made.
C20_CountedWithoutConnect ==
    /\ Completed = Threads
    /\ ~Serial
    /\ refcount > 0
    /\ Connectors = {}

\* Two motors of the Global Namespace d have the same id.
SharedId(d) == \E g, h \in DOMAIN d : g # h /\ d[g].id = d[h].id

\* C21: register_component validates bus names only, never ids: a call
\* whose bus names are all fresh succeeds whatever ids it produces, also an
\* id another registered motor already has, and a call fails only for a bus
\* name that is already present; so the Global Namespace can hold two motors
\* with the same id.
C21_OnlyNamesAreValidated ==
    [][ last'.op = "register_component" =>
          LET a == last'.arg
              fresh == \A n \in Range(a.names) :
                          BusName(a.prefix, n) \notin DOMAIN motor_defs
          IN  /\ fresh =>
                    /\ last'.outcome = "ok"
                    /\ \A n \in Range(a.names) :
                          /\ BusName(a.prefix, n) \in DOMAIN motor_defs'
                          /\ motor_defs'[BusName(a.prefix, n)].id
                                = SubDeviceMotor(n).id + a.motor_id_offset
              /\ last'.outcome # "ok" => ~fresh
      ]_vars

\* A registration under fresh names succeeded and the Global Namespace now
\* holds two motors with one id.
C21_Witness ==
    /\ last.op = "register_component"
    /\ last.outcome = "ok"
    /\ SharedId(motor_defs)
    /\ \E n \in Range(last.arg.names) :
          \E g \in DOMAIN motor_defs \ {BusName(last.arg.prefix, n)} :
              motor_defs[g].id = motor_defs[BusName(last.arg.prefix, n)].id
====
